---- MODULE Spec2Model ----
(***************************************************************************)
(* Model of clickhouse-websockets-angelone.py: the orchestrator (main),    *)
(* the session acquisition (generate_tokens), the retry wrapper            *)
(* (connect_with_retry), the connection loop (connect_websocket) and the   *)
(* per-frame write path (process_and_store_data,                           *)
(* store_data_in_clickhouse).                                              *)
(*                                                                         *)
(* There is one coroutine.  pc is the await (or call) it is suspended at;  *)
(* each action runs the code from one await to the next, synchronous calls *)
(* included.  Durations of sleeps and timeouts are recorded in timer, not  *)
(* counted down.                                                           *)
(***************************************************************************)
EXTENDS Integers, Sequences, FiniteSets, TLC

\* ------------------------------------------------------------------ bounds
\* generate_tokens calls modelled in one run
MaxGen == 3
\* the counter of consecutive failed connects saturates here (above max_tries)
MaxFails == 12
\* the counters of frames and of sink rows saturate here
MaxFrames == 2

\* --------------------------------------------------------- program constants
max_tries == 10
RECONNECT_SLEEP == 5
COOLDOWN_SLEEP == 10
RECV_TIMEOUT == 30
PONG_TIMEOUT == 10
HTTP_OK == 200
HTTP_ERR == 401

\* json.dumps of the fixed subscription request (RELIANCE, mode 2)
subscribe_message ==
    [correlationID |-> "ws_test", action |-> 1, mode |-> 2,
     exchangeType |-> 1, tokens |-> <<"2885">>]

VARIABLES
    pc,          \* where the coroutine is suspended
    AUTH_TOKEN,  \* global: 0 is None or "", n > 0 the token of the n-th call
    FEED_TOKEN,  \* global, as AUTH_TOKEN
    genCalls,    \* generate_tokens calls made so far
    lastResp,    \* the answer the last generate_tokens call got
    headers,     \* connect_websocket's local headers: <<auth, feed>>
    presented,   \* the <<auth, feed>> given to the last websockets.connect
    sockOpen,    \* a websocket is open (inside the async with)
    sent,        \* messages sent on the current socket, in order
    frames,      \* frames received on the current socket (saturating)
    timer,       \* duration of the pending sleep or timeout, 0 when none
    pending,     \* the waits the event loop holds for the coroutine
    prevDelay,   \* the reconnect delay slept before the last attempt, 0 if none
    fails,       \* consecutive failed websockets.connect calls (saturating)
    closes,      \* peer closes seen since the last generate_tokens (0 or 1)
    rows,        \* rows inserted into angelone_market_data (saturating)
    tableMade,   \* create_clickhouse_table calls completed
    log          \* what the last step printed and did, for observation

vars == <<pc, AUTH_TOKEN, FEED_TOKEN, genCalls, lastResp, headers, presented, sockOpen, sent,
          frames, timer, pending, prevDelay, fails, closes, rows, tableMade, log>>

Sat(n, max) == IF n < max THEN n + 1 ELSE max

NoFrame == [kind |-> "none", parse |-> "none", hasToken |-> FALSE,
            hasLtp |-> FALSE, insertOk |-> FALSE]

\* What one step did: the handler that ended it, the frame it consumed and the
\* client.insert calls it made.
Log(ev, fr, ins, stored) ==
    [event |-> ev, frame |-> fr, inserts |-> ins, stored |-> stored]

NoResp == [posted |-> FALSE, status |-> 0, jwt |-> "missing", feed |-> "missing"]

\* What each await hands to the event loop: asyncio.wait_for holds the awaited
\* future together with its timeout; both are gone when the await ends.
Waits(p) ==
    CASE p = "gen" -> {"http"}
      [] p = "cooldown" -> {"cooldown_sleep"}
      [] p = "connect" -> {"connect"}
      [] p = "subscribe" -> {"send"}
      [] p = "recv" -> {"recv", "inactivity_timer"}
      [] p = "pong" -> {"pong", "pong_timer"}
      [] p = "sleep" -> {"reconnect_sleep"}
      [] OTHER -> {}

Init ==
    /\ pc = "start"
    /\ AUTH_TOKEN = 0
    /\ FEED_TOKEN = 0
    /\ genCalls = 0
    /\ lastResp = NoResp
    /\ headers = <<0, 0>>
    /\ presented = <<0, 0>>
    /\ sockOpen = FALSE
    /\ sent = <<>>
    /\ frames = 0
    /\ timer = 0
    /\ pending = {}
    /\ prevDelay = 0
    /\ fails = 0
    /\ closes = 0
    /\ rows = 0
    /\ tableMade = 0
    /\ log = Log("init", NoFrame, 0, FALSE)

\* ------------------------------------------------------------------- main
\* Mutant of CreateTable: the schema call's exception is swallowed and main
\* goes on without the table.
CreateTableSwallowed ==
    /\ pc = "start"
    /\ \E ok \in BOOLEAN :
         /\ pc' = "gen"
         /\ tableMade' = IF ok THEN tableMade + 1 ELSE tableMade
         /\ log' = Log(IF ok THEN "table_created" ELSE "table_failed",
                       NoFrame, 0, FALSE)
    /\ pending' = Waits(pc')
    /\ UNCHANGED <<AUTH_TOKEN, FEED_TOKEN, genCalls, lastResp, headers, presented, sockOpen,
                   sent, frames, timer, prevDelay, fails, closes, rows>>

\* main: create_clickhouse_table(), outside the try.  client.command raising
\* ends main with the exception.
CreateTable ==
    /\ pc = "start"
    /\ \E ok \in BOOLEAN :
         IF ok
         THEN /\ pc' = "gen"
              /\ tableMade' = tableMade + 1
              /\ log' = Log("table_created", NoFrame, 0, FALSE)
         ELSE /\ pc' = "crashed"
              /\ tableMade' = tableMade
              /\ log' = Log("table_failed", NoFrame, 0, FALSE)
    /\ pending' = Waits(pc')
    /\ UNCHANGED <<AUTH_TOKEN, FEED_TOKEN, genCalls, lastResp, headers, presented, sockOpen,
                   sent, frames, timer, prevDelay, fails, closes, rows>>

\* ------------------------------------------------------- generate_tokens
\* What the authentication endpoint can answer: the POST itself may raise; a
\* 200 body may lack either token field or carry an empty one.
Responses ==
    [posted : BOOLEAN, status : {HTTP_OK, HTTP_ERR},
     jwt : {"value", "empty", "missing"}, feed : {"value", "empty", "missing"}]

TokenOf(field, n) == IF field = "value" THEN n ELSE 0

\* Mutant of generate_tokens: a 200 body without feedToken keeps the old
\* FEED_TOKEN and returns normally.
generate_tokens_keeps_feed(resp, n, auth, feed) ==
    IF ~resp.posted
    THEN [auth |-> auth, feed |-> feed, raised |-> TRUE]
    ELSE IF resp.status = HTTP_OK
    THEN IF resp.jwt = "missing"
         THEN [auth |-> auth, feed |-> feed, raised |-> TRUE]
         ELSE IF resp.feed = "missing"
         THEN [auth |-> TokenOf(resp.jwt, n), feed |-> feed, raised |-> FALSE]
         ELSE [auth |-> TokenOf(resp.jwt, n), feed |-> TokenOf(resp.feed, n),
               raised |-> FALSE]
    ELSE [auth |-> auth, feed |-> feed, raised |-> TRUE]

\* generate_tokens: the n-th call, entered with the globals (auth, feed).
\* AUTH_TOKEN is assigned before FEED_TOKEN is looked up.
generate_tokens(resp, n, auth, feed) ==
    IF ~resp.posted
    THEN [auth |-> auth, feed |-> feed, raised |-> TRUE]
    ELSE IF resp.status = HTTP_OK
    THEN IF resp.jwt = "missing"
         THEN [auth |-> auth, feed |-> feed, raised |-> TRUE]
         ELSE IF resp.feed = "missing"
         THEN [auth |-> TokenOf(resp.jwt, n), feed |-> feed, raised |-> TRUE]
         ELSE [auth |-> TokenOf(resp.jwt, n), feed |-> TokenOf(resp.feed, n),
               raised |-> FALSE]
    ELSE [auth |-> auth, feed |-> feed, raised |-> TRUE]

\* Mutant of connect_websocket_entry: no guard on the globals.
connect_websocket_entry_unguarded(auth, feed) == "loop"

\* connect_websocket, up to its loop: the guard on the two globals.
connect_websocket_entry(auth, feed) ==
    IF auth = 0 \/ feed = 0 THEN "return" ELSE "loop"

\* backoff.on_exception(backoff.expo, Exception, max_tries=10) around
\* connect_websocket: what the wrapper does with the outcome of try number
\* tries.
connect_with_retry(raised, tries) ==
    IF ~raised THEN "return"
    ELSE IF tries < max_tries THEN "retry"
    ELSE "giveup"

\* Mutant of reconnect_delay: the full delay once, a short one afterwards.
reconnect_delay_shrinking(k) == IF k <= 1 THEN RECONNECT_SLEEP ELSE 1

\* The sleep before the next websockets.connect, after k consecutive failures.
reconnect_delay(k) == RECONNECT_SLEEP

\* Mutant of GenerateTokens: the except clause loops straight back to
\* generate_tokens, without the cooldown.
GenerateTokensNoCooldown ==
    /\ pc = "gen"
    /\ genCalls < MaxGen
    /\ \E resp \in Responses :
         LET n == genCalls + 1
             r == generate_tokens(resp, n, AUTH_TOKEN, FEED_TOKEN)
             entry == connect_websocket_entry(r.auth, r.feed)
         IN  /\ genCalls' = n
             /\ AUTH_TOKEN' = r.auth
             /\ FEED_TOKEN' = r.feed
             /\ lastResp' = resp
             /\ closes' = 0
             /\ IF r.raised
                THEN /\ pc' = "gen"
                     /\ timer' = 0
                     /\ log' = Log("auth_failed", NoFrame, 0, FALSE)
                     /\ UNCHANGED <<headers, fails, prevDelay>>
                ELSE IF entry = "return"
                THEN /\ pc' = "cooldown"
                     /\ timer' = COOLDOWN_SLEEP
                     /\ log' = Log("tokens_unset", NoFrame, 0, FALSE)
                     /\ UNCHANGED <<headers, fails, prevDelay>>
                ELSE /\ pc' = "connect"
                     /\ timer' = 0
                     /\ headers' = <<r.auth, r.feed>>
                     /\ fails' = 0
                     /\ prevDelay' = 0
                     /\ log' = Log("session_started", NoFrame, 0, FALSE)
    /\ pending' = Waits(pc')
    /\ UNCHANGED <<presented, sockOpen, sent, frames, rows, tableMade>>

\* main's loop body, from the return of the token request to the next await:
\* the except clause and the cooldown, or connect_with_retry up to
\* websockets.connect.
GenerateTokens ==
    /\ pc = "gen"
    /\ genCalls < MaxGen
    /\ \E resp \in Responses :
         LET n == genCalls + 1
             r == generate_tokens(resp, n, AUTH_TOKEN, FEED_TOKEN)
             entry == connect_websocket_entry(r.auth, r.feed)
             wrapped == connect_with_retry(FALSE, 1)
         IN  /\ genCalls' = n
             /\ AUTH_TOKEN' = r.auth
             /\ FEED_TOKEN' = r.feed
             /\ lastResp' = resp
             /\ closes' = 0
             /\ IF r.raised
                THEN /\ pc' = "cooldown"
                     /\ timer' = COOLDOWN_SLEEP
                     /\ log' = Log("auth_failed", NoFrame, 0, FALSE)
                     /\ UNCHANGED <<headers, fails, prevDelay>>
                ELSE IF entry = "return" /\ wrapped = "return"
                THEN /\ pc' = "cooldown"
                     /\ timer' = COOLDOWN_SLEEP
                     /\ log' = Log("tokens_unset", NoFrame, 0, FALSE)
                     /\ UNCHANGED <<headers, fails, prevDelay>>
                ELSE /\ pc' = "connect"
                     /\ timer' = 0
                     /\ headers' = <<r.auth, r.feed>>
                     /\ fails' = 0
                     /\ prevDelay' = 0
                     /\ log' = Log("session_started", NoFrame, 0, FALSE)
    /\ pending' = Waits(pc')
    /\ UNCHANGED <<presented, sockOpen, sent, frames, rows, tableMade>>

\* main: asyncio.sleep(10) returns, the loop starts over.
CooldownDone ==
    /\ pc = "cooldown"
    /\ pc' = "gen"
    /\ timer' = 0
    /\ log' = Log("cooldown_done", NoFrame, 0, FALSE)
    /\ pending' = Waits(pc')
    /\ UNCHANGED <<AUTH_TOKEN, FEED_TOKEN, genCalls, lastResp, headers, presented, sockOpen,
                   sent, frames, prevDelay, fails, closes, rows, tableMade>>

\* ------------------------------------------------------ the write path
\* Inbound messages: text or binary; what _parse_binary_data does with a
\* binary one (raises, returns nothing, returns a dict), which required keys
\* the dict has, and whether client.insert succeeds.
Frames ==
    [kind : {"binary", "text"}, parse : {"raise", "none", "dict"},
     hasToken : BOOLEAN, hasLtp : BOOLEAN, insertOk : BOOLEAN]

\* Mutant of store_data_in_clickhouse: a failed insert is tried once more.
store_data_in_clickhouse_retrying(insertOk) ==
    [inserts |-> IF insertOk THEN 1 ELSE 2, stored |-> insertOk,
     raised |-> FALSE,
     event |-> IF insertOk THEN "stored" ELSE "sink_error_swallowed"]

\* store_data_in_clickhouse: one client.insert; its exception is printed and
\* dropped.
store_data_in_clickhouse(insertOk) ==
    [inserts |-> 1, stored |-> insertOk, raised |-> FALSE,
     event |-> IF insertOk THEN "stored" ELSE "sink_error_swallowed"]

\* Mutant of process_and_store_data: the required keys are read with
\* data.get(..., 0) like the optional ones, so a record is built without them.
process_and_store_data_defaults(f) ==
    [inserts |-> 1, stored |-> f.insertOk, raised |-> FALSE,
     event |-> IF f.insertOk THEN "stored" ELSE "sink_error_swallowed"]

\* Mutant of process_and_store_data: the insert's exception is let out of the
\* write path into the receive loop.
process_and_store_data_unguarded(f) ==
    IF ~f.hasToken \/ ~f.hasLtp
    THEN [inserts |-> 0, stored |-> FALSE, raised |-> FALSE,
          event |-> "record_error_swallowed"]
    ELSE [inserts |-> 1, stored |-> f.insertOk, raised |-> ~f.insertOk,
          event |-> IF f.insertOk THEN "stored" ELSE "sink_error_raised"]

\* process_and_store_data: data['token'] and data['last_traded_price'] are
\* required (KeyError), the other keys default to 0; any exception is printed
\* and dropped.
process_and_store_data(f) ==
    IF ~f.hasToken \/ ~f.hasLtp
    THEN [inserts |-> 0, stored |-> FALSE, raised |-> FALSE,
          event |-> "record_error_swallowed"]
    ELSE LET s == store_data_in_clickhouse(f.insertOk)
         IN  [inserts |-> s.inserts, stored |-> s.stored, raised |-> FALSE,
              event |-> IF s.raised THEN "record_error_swallowed" ELSE s.event]

\* connect_websocket, the body of the inner try after recv() returned f: only
\* bytes are parsed; the parser's exception is not one the inner try catches.
on_message(f) ==
    IF f.kind # "binary"
    THEN [inserts |-> 0, stored |-> FALSE, raised |-> FALSE, event |-> "ignored"]
    ELSE IF f.parse = "raise"
    THEN [inserts |-> 0, stored |-> FALSE, raised |-> TRUE, event |-> "parser_raised"]
    ELSE IF f.parse = "none"
    THEN [inserts |-> 0, stored |-> FALSE, raised |-> FALSE, event |-> "not_parsed"]
    ELSE process_and_store_data(f)

\* ------------------------------------------------- connect_websocket loop
\* Mutant of ToSleep: the socket is not closed on the way out of the try.
ToSleepLeavesSocket(k) ==
    /\ pc' = "sleep"
    /\ timer' = reconnect_delay(k)
    /\ sockOpen' = sockOpen

\* The way from inside the outer try to the next await: the async with (if
\* entered) closes the socket, the handler prints, asyncio.sleep(5) starts.
ToSleep(k) ==
    /\ pc' = "sleep"
    /\ timer' = reconnect_delay(k)
    /\ sockOpen' = FALSE

\* websockets.connect(uri, extra_headers=headers, ...) returns or raises.
Connect ==
    /\ pc = "connect"
    /\ presented' = headers
    /\ \E ok \in BOOLEAN :
         IF ok
         THEN /\ pc' = "subscribe"
              /\ sockOpen' = TRUE
              /\ sent' = <<>>
              /\ frames' = 0
              /\ fails' = 0
              /\ timer' = 0
              /\ log' = Log("connected", NoFrame, 0, FALSE)
         ELSE /\ fails' = Sat(fails, MaxFails)
              /\ ToSleep(fails')
              /\ log' = Log("connect_failed", NoFrame, 0, FALSE)
              /\ UNCHANGED <<sent, frames>>
    /\ pending' = Waits(pc')
    /\ UNCHANGED <<AUTH_TOKEN, FEED_TOKEN, genCalls, lastResp, headers,
                   prevDelay, closes, rows, tableMade>>

\* Mutant of Subscribe: the receive loop is entered without the subscription
\* having been sent.
SubscribeSkipped ==
    /\ pc = "subscribe"
    /\ pc' = "recv"
    /\ timer' = RECV_TIMEOUT
    /\ log' = Log("subscribed", NoFrame, 0, FALSE)
    /\ pending' = Waits(pc')
    /\ UNCHANGED <<AUTH_TOKEN, FEED_TOKEN, genCalls, lastResp, headers,
                   presented, sockOpen, sent, frames, prevDelay, fails, closes,
                   rows, tableMade>>

\* subscribe_to_quotes: websocket.send(subscribe_message) returns or raises;
\* then the parser is built and the first recv() is awaited.
Subscribe ==
    /\ pc = "subscribe"
    /\ \E ok \in BOOLEAN :
         IF ok
         THEN /\ sent' = Append(sent, subscribe_message)
              /\ pc' = "recv"
              /\ timer' = RECV_TIMEOUT
              /\ sockOpen' = sockOpen
              /\ log' = Log("subscribed", NoFrame, 0, FALSE)
         ELSE /\ ToSleep(fails)
              /\ sent' = sent
              /\ log' = Log("send_failed", NoFrame, 0, FALSE)
    /\ pending' = Waits(pc')
    /\ UNCHANGED <<AUTH_TOKEN, FEED_TOKEN, genCalls, lastResp, headers,
                   presented, frames, prevDelay, fails, closes, rows, tableMade>>

\* recv() returns a message within the timeout: it is handled and the loop
\* awaits the next one, unless the handling raised.
RecvMessage ==
    /\ pc = "recv"
    /\ \E f \in Frames :
         LET r == on_message(f)
         IN  /\ frames' = Sat(frames, MaxFrames)
             /\ rows' = IF r.stored THEN Sat(rows, MaxFrames) ELSE rows
             /\ log' = Log(r.event, f, r.inserts, r.stored)
             /\ IF r.raised
                THEN ToSleep(fails)
                ELSE /\ pc' = "recv"
                     /\ timer' = RECV_TIMEOUT
                     /\ sockOpen' = sockOpen
    /\ pending' = Waits(pc')
    /\ UNCHANGED <<AUTH_TOKEN, FEED_TOKEN, genCalls, lastResp, headers,
                   presented, sent, prevDelay, fails, closes, tableMade>>

\* Mutant of RecvTimeout: the timed-out recv() is left pending while the pong
\* is awaited.
RecvTimeoutKeepsRecv ==
    /\ pc = "recv"
    /\ \E pinged \in BOOLEAN :
         IF pinged
         THEN /\ pc' = "pong"
              /\ timer' = PONG_TIMEOUT
              /\ sockOpen' = sockOpen
              /\ log' = Log("ping_sent", NoFrame, 0, FALSE)
         ELSE /\ ToSleep(fails)
              /\ log' = Log("ping_failed", NoFrame, 0, FALSE)
    /\ pending' = Waits(pc') \cup {"recv"}
    /\ UNCHANGED <<AUTH_TOKEN, FEED_TOKEN, genCalls, lastResp, headers,
                   presented, sent, frames, prevDelay, fails, closes, rows,
                   tableMade>>

\* asyncio.TimeoutError after 30: websocket.ping() is sent (or raises
\* ConnectionClosed, inside the handler), then the pong is awaited.
RecvTimeout ==
    /\ pc = "recv"
    /\ \E pinged \in BOOLEAN :
         IF pinged
         THEN /\ pc' = "pong"
              /\ timer' = PONG_TIMEOUT
              /\ sockOpen' = sockOpen
              /\ log' = Log("ping_sent", NoFrame, 0, FALSE)
         ELSE /\ ToSleep(fails)
              /\ log' = Log("ping_failed", NoFrame, 0, FALSE)
    /\ pending' = Waits(pc')
    /\ UNCHANGED <<AUTH_TOKEN, FEED_TOKEN, genCalls, lastResp, headers,
                   presented, sent, frames, prevDelay, fails, closes, rows,
                   tableMade>>

\* Mutant of RecvClosed: return instead of break, so that main goes on to the
\* cooldown and a new session.
RecvClosedReturns ==
    /\ pc = "recv"
    /\ pc' = "cooldown"
    /\ timer' = COOLDOWN_SLEEP
    /\ sockOpen' = FALSE
    /\ closes' = 1
    /\ log' = Log("peer_closed", NoFrame, 0, FALSE)
    /\ pending' = Waits(pc')
    /\ UNCHANGED <<AUTH_TOKEN, FEED_TOKEN, genCalls, lastResp, headers,
                   presented, sent, frames, prevDelay, fails, rows, tableMade>>

\* websockets.exceptions.ConnectionClosed out of recv(): break.
RecvClosed ==
    /\ pc = "recv"
    /\ ToSleep(fails)
    /\ closes' = 1
    /\ log' = Log("peer_closed", NoFrame, 0, FALSE)
    /\ pending' = Waits(pc')
    /\ UNCHANGED <<AUTH_TOKEN, FEED_TOKEN, genCalls, lastResp, headers,
                   presented, sent, frames, prevDelay, fails, rows, tableMade>>

\* Mutant of PongWait: the connection is dropped after the probe, whether or
\* not the pong arrived.
PongWaitAlwaysDrops ==
    /\ pc = "pong"
    /\ \E o \in {"pong", "timeout", "closed"} :
         /\ ToSleep(fails)
         /\ log' = Log(IF o = "pong" THEN "pong_received"
                       ELSE IF o = "timeout" THEN "pong_timeout"
                       ELSE "pong_closed", NoFrame, 0, FALSE)
    /\ pending' = Waits(pc')
    /\ UNCHANGED <<AUTH_TOKEN, FEED_TOKEN, genCalls, lastResp, headers,
                   presented, sent, frames, prevDelay, fails, closes, rows,
                   tableMade>>

\* Mutant of PongWait: the pong's timeout is caught by the inner try and the
\* receive loop goes on with the same socket.
PongWaitTimeoutSwallowed ==
    /\ pc = "pong"
    /\ \E o \in {"pong", "timeout", "closed"} :
         IF o \in {"pong", "timeout"}
         THEN /\ pc' = "recv"
              /\ timer' = RECV_TIMEOUT
              /\ sockOpen' = sockOpen
              /\ log' = Log(IF o = "pong" THEN "pong_received" ELSE "pong_timeout",
                            NoFrame, 0, FALSE)
         ELSE /\ ToSleep(fails)
              /\ log' = Log("pong_closed", NoFrame, 0, FALSE)
    /\ pending' = Waits(pc')
    /\ UNCHANGED <<AUTH_TOKEN, FEED_TOKEN, genCalls, lastResp, headers,
                   presented, sent, frames, prevDelay, fails, closes, rows,
                   tableMade>>

\* wait_for(pong_waiter, timeout=10): the pong arrives, or the wait raises
\* (TimeoutError, ConnectionClosed) from inside the except clause.
PongWait ==
    /\ pc = "pong"
    /\ \E o \in {"pong", "timeout", "closed"} :
         IF o = "pong"
         THEN /\ pc' = "recv"
              /\ timer' = RECV_TIMEOUT
              /\ sockOpen' = sockOpen
              /\ log' = Log("pong_received", NoFrame, 0, FALSE)
         ELSE /\ ToSleep(fails)
              /\ log' = Log(IF o = "timeout" THEN "pong_timeout" ELSE "pong_closed",
                            NoFrame, 0, FALSE)
    /\ pending' = Waits(pc')
    /\ UNCHANGED <<AUTH_TOKEN, FEED_TOKEN, genCalls, lastResp, headers,
                   presented, sent, frames, prevDelay, fails, closes, rows,
                   tableMade>>

\* asyncio.sleep(5) returns: the outer while loops to websockets.connect.
SleepDone ==
    /\ pc = "sleep"
    /\ pc' = "connect"
    /\ prevDelay' = timer
    /\ timer' = 0
    /\ log' = Log("sleep_done", NoFrame, 0, FALSE)
    /\ pending' = Waits(pc')
    /\ UNCHANGED <<AUTH_TOKEN, FEED_TOKEN, genCalls, lastResp, headers,
                   presented, sockOpen, sent, frames, fails, closes, rows,
                   tableMade>>

\* ---------------------------------------------------------- cancellation
\* The places the coroutine can be suspended at.
Awaits == {"gen", "cooldown", "connect", "subscribe", "recv", "pong", "sleep"}

\* Mutant of Cancel: the socket is not owned by an async with and the timeout
\* is not owned by wait_for, so unwinding leaves both behind.
CancelLeaks ==
    /\ pc \in Awaits
    /\ pc' = "cancelled"
    /\ log' = Log("cancelled_at_" \o pc, NoFrame, 0, FALSE)
    /\ UNCHANGED <<AUTH_TOKEN, FEED_TOKEN, genCalls, lastResp, headers,
                   presented, sockOpen, sent, frames, timer, pending, prevDelay,
                   fails, closes, rows, tableMade>>

\* asyncio.run cancels main (KeyboardInterrupt): CancelledError is not an
\* Exception, no handler catches it; the async with closes the socket and
\* wait_for / sleep drop their timers.
Cancel ==
    /\ pc \in Awaits
    /\ pc' = "cancelled"
    /\ sockOpen' = FALSE
    /\ timer' = 0
    /\ log' = Log("cancelled_at_" \o pc, NoFrame, 0, FALSE)
    /\ pending' = Waits(pc')
    /\ UNCHANGED <<AUTH_TOKEN, FEED_TOKEN, genCalls, lastResp, headers,
                   presented, sent, frames, prevDelay, fails, closes, rows,
                   tableMade>>

\* ------------------------------------------------------- specifications
NextRun ==
    \/ CreateTable
    \/ GenerateTokens
    \/ CooldownDone
    \/ Connect
    \/ Subscribe
    \/ RecvMessage
    \/ RecvTimeout
    \/ RecvClosed
    \/ PongWait
    \/ SleepDone

Next == NextRun \/ Cancel

Spec == Init /\ [][Next]_vars

\* A run nobody cancels.  Every await ends: sleeps and wait_for time out, the
\* connect and the HTTP request return or raise, and the event loop then
\* resumes the one coroutine.
FairSpec ==
    /\ Init
    /\ [][NextRun]_vars
    /\ WF_vars(CreateTable)
    /\ WF_vars(GenerateTokens)
    /\ WF_vars(CooldownDone)
    /\ WF_vars(Connect)
    /\ WF_vars(Subscribe)
    /\ WF_vars(RecvMessage \/ RecvTimeout \/ RecvClosed)
    /\ WF_vars(PongWait)
    /\ WF_vars(SleepDone)

TypeOK ==
    /\ pc \in Awaits \cup {"start", "crashed", "cancelled"}
    /\ AUTH_TOKEN \in 0..MaxGen
    /\ FEED_TOKEN \in 0..MaxGen
    /\ genCalls \in 0..MaxGen
    /\ sockOpen \in BOOLEAN
    /\ frames \in 0..MaxFrames
    /\ rows \in 0..MaxFrames
    /\ fails \in 0..MaxFails
    /\ closes \in 0..1
    /\ timer \in {0, RECONNECT_SLEEP, COOLDOWN_SLEEP, RECV_TIMEOUT, PONG_TIMEOUT}
    /\ pending = Waits(pc)

\* ================================================================ claims
InLoop == pc \in {"connect", "subscribe", "recv", "pong", "sleep"}

\* C1: once a session is acquired and the supervisor is connecting, either a
\* connection attempt succeeds or generate_tokens is eventually called again
\* (if every attempt fails, the session is renewed).
C1_SessionRenewalLive == (pc = "connect") ~> (sockOpen \/ pc = "gen")

\* C2: after max_tries consecutive failed connection attempts the supervisor
\* is no longer in its connection loop: it has propagated to main.
C2_AttemptsCapped == fails >= max_tries => ~InLoop

\* C3: the delay before the next attempt is twice the delay before the
\* previous one while attempts keep failing.
C3_DelayDoubles == (pc = "sleep" /\ fails >= 2) => timer = 2 * prevDelay

\* C4: the delay before attempt k+1 is at least the delay before attempt k,
\* and no delay exceeds the configured reconnect delay.
DelayCap == RECONNECT_SLEEP
C4_DelayMonotoneBounded ==
    pc = "sleep" => (prevDelay <= timer /\ timer <= DelayCap /\ timer > 0)

C4_Witness == pc = "sleep" /\ fails >= 3 /\ prevDelay = RECONNECT_SLEEP

\* C5: after a peer close there is no new session acquisition: the supervisor
\* stays in its loop with the tokens of the session it was started with, and
\* any connection it then opens presents those tokens and carries the one
\* subscription message.
C5_PeerCloseKeepsSession ==
    closes > 0 =>
        /\ InLoop \/ pc = "cancelled"
        /\ headers = <<genCalls, genCalls>>
        /\ headers = <<AUTH_TOKEN, FEED_TOKEN>>
        /\ sockOpen => presented = headers
        /\ pc \in {"recv", "pong"} => sent = <<subscribe_message>>

C5_Witness ==
    closes > 0 /\ pc = "recv" /\ log.event = "subscribed" /\ genCalls = 1

\* C6: after a frame whose client.insert failed, the coroutine awaits the next
\* frame on the same open socket, with no reconnect and no new subscription.
C6_SinkErrorContained ==
    (log.frame.kind = "binary" /\ log.inserts = 1 /\ ~log.stored) =>
        /\ pc = "recv"
        /\ sockOpen
        /\ timer = RECV_TIMEOUT
        /\ sent = <<subscribe_message>>

C6_Witness ==
    /\ log.event = "sink_error_swallowed"
    /\ ~log.frame.insertOk
    /\ frames = 2
    /\ pc = "recv"

\* The decode of a binary frame failed: the parser raised or returned
\* nothing, or a required key is missing from what it returned.
DecodeFailed(f) ==
    /\ f.kind = "binary"
    /\ \/ f.parse \in {"raise", "none"}
       \/ ~f.hasToken
       \/ ~f.hasLtp

\* C7: after a binary frame whose decode failed, the coroutine awaits the next
\* frame on the same open socket.
C7_DecodeFailureContained ==
    DecodeFailed(log.frame) => (pc = "recv" /\ sockOpen)

\* C8: a receive wait has the 30-unit timeout; on its expiry a ping is sent and
\* the pong awaited for 10 units; if that wait times out the socket is closed,
\* the 5-unit reconnect sleep is pending, and a new websockets.connect follows.
C8_WatchdogReconnects ==
    /\ [](pc = "recv" => timer = RECV_TIMEOUT)
    /\ [](log.event = "ping_sent" => (pc = "pong" /\ timer = PONG_TIMEOUT))
    /\ [](log.event = "pong_timeout" =>
            (pc = "sleep" /\ ~sockOpen /\ timer = RECONNECT_SLEEP))
    /\ (log.event = "pong_timeout") ~> (pc = "connect")

C8_Witness == log.event = "pong_timeout" /\ pc = "sleep" /\ frames > 0

\* C9: a socket carries at most one sent message; in the receive loop it is
\* exactly the subscription message; nothing was received from a socket
\* before that message was sent on it.
C9_SubscribeOncePerSocket ==
    /\ Len(sent) <= 1
    /\ pc = "subscribe" => (sent = <<>> /\ frames = 0)
    /\ pc \in {"recv", "pong"} => sent = <<subscribe_message>>
    /\ frames > 0 => sent = <<subscribe_message>>

C9_Witness ==
    /\ pc = "recv"
    /\ log.event = "stored"
    /\ prevDelay > 0
    /\ sent = <<subscribe_message>>

\* The token request failed: no answer, a status other than 200, or a body
\* without one of the two token fields.
AcquisitionFailed(resp) ==
    \/ ~resp.posted
    \/ resp.status # HTTP_OK
    \/ resp.jwt = "missing"
    \/ resp.feed = "missing"

\* C10: after a failed acquisition the supervisor is not entered (main is in
\* the cooldown or past it); the cooldown is 10 units with no socket open; and
\* every generate_tokens call but the first starts right after a cooldown.
C10_FailureThenCooldown ==
    /\ (genCalls > 0 /\ AcquisitionFailed(lastResp)) =>
           pc \in {"cooldown", "gen", "cancelled"}
    /\ pc = "cooldown" => (timer = COOLDOWN_SLEEP /\ ~sockOpen)
    /\ (pc = "gen" /\ genCalls > 0) => log.event = "cooldown_done"

C10_Witness ==
    /\ pc = "gen"
    /\ genCalls = 2
    /\ AcquisitionFailed(lastResp)
    /\ lastResp.status = HTTP_OK
    /\ lastResp.posted

\* C11: main has no terminal state of its own: whatever step fails, main is
\* still running (it never ends with an exception).
C11_MainNeverEnds == pc # "crashed"

\* C12: create_clickhouse_table completes at most once, and it has completed
\* whenever main is past it: before any generate_tokens call and before any
\* row is inserted.
C12_SchemaOnceFirst ==
    /\ tableMade <= 1
    /\ (pc \in Awaits \/ pc = "cancelled" \/ genCalls > 0 \/ rows > 0)
           => tableMade = 1

C12_Witness == rows > 0 /\ genCalls = 1 /\ tableMade = 1 /\ pc = "recv"

\* C13: once main has been cancelled, at whichever await, no socket is open
\* and the event loop holds no wait or timer for it.
C13_CancelReleasesAll ==
    pc = "cancelled" => (~sockOpen /\ pending = {} /\ timer = 0)

C13_Witness ==
    /\ pc = "cancelled"
    /\ log.event = "cancelled_at_pong"
    /\ sent = <<subscribe_message>>

\* The parser returned a dict with both required keys.
WellFormed(f) ==
    f.kind = "binary" /\ f.parse = "dict" /\ f.hasToken /\ f.hasLtp

\* C14: a parsed frame without the token or without the last traded price
\* leads to no client.insert call and no row.
C14_NoRecordWithoutRequired ==
    (log.frame.kind = "binary" /\ log.frame.parse = "dict"
        /\ (~log.frame.hasToken \/ ~log.frame.hasLtp))
    => (log.inserts = 0 /\ ~log.stored)

C14_Witness ==
    /\ log.event = "record_error_swallowed"
    /\ log.frame.hasToken
    /\ ~log.frame.hasLtp
    /\ log.frame.insertOk

\* C15: one step of the receive loop makes at most one client.insert call:
\* exactly one for a well-formed binary frame (whether or not the insert
\* succeeds), none for a text frame and none when no frame was received.
C15_AtMostOnce ==
    /\ log.inserts <= 1
    /\ WellFormed(log.frame) => log.inserts = 1
    /\ log.frame.kind \in {"text", "none"} => log.inserts = 0
    /\ log.stored => log.inserts = 1

C15_Witness ==
    WellFormed(log.frame) /\ ~log.frame.insertOk /\ log.inserts = 1 /\ rows = 1

\* C16: inside the connection loop the headers are the two tokens of the
\* latest generate_tokens call, which succeeded; any pair ever presented to
\* websockets.connect is that pair.
C16_PresentedPairIsCurrent ==
    /\ InLoop => (headers = <<genCalls, genCalls>> /\ ~AcquisitionFailed(lastResp))
    /\ (sockOpen \/ presented # <<0, 0>>) => presented = <<genCalls, genCalls>>

C16_Witness ==
    pc = "recv" /\ genCalls = 3 /\ presented = <<3, 3>> /\ sockOpen

C18_OneSocket ==
    /\ pc \in {"sleep", "connect"} => ~sockOpen
    /\ sockOpen => pc \in {"subscribe", "recv", "pong"}

C18_Witness ==
    /\ pc = "connect"
    /\ log.event = "sleep_done"
    /\ sent = <<subscribe_message>>
    /\ frames > 0
    /\ ~sockOpen

\* C19: the step that sends the ping after an inactivity timeout, and the step
\* in which the pong arrives, keep the socket open and send nothing else; the
\* pong's arrival puts the coroutine back in the receive wait.
C19_PongKeepsConnection ==
    [][/\ (pc = "recv" /\ log'.event = "ping_sent") =>
            (sockOpen /\ sockOpen' /\ pc' = "pong" /\ sent' = sent)
       /\ (pc = "pong" /\ log'.event = "pong_received") =>
            /\ pc' = "recv"
            /\ sockOpen /\ sockOpen'
            /\ sent' = sent /\ sent = <<subscribe_message>>
            /\ presented' = presented
            /\ frames' = frames
            /\ timer' = RECV_TIMEOUT]_vars

C19_Witness ==
    log.event = "pong_received" /\ pc = "recv" /\ sockOpen /\ frames > 0

\* C20: when generate_tokens returned normally but a global is None or empty,
\* connect_websocket returns: no socket is opened, main sleeps the 10-unit
\* cooldown and then calls generate_tokens again; the connection loop is
\* never entered with an unset token.
C20_UnsetTokensNoSocket ==
    /\ [](log.event = "tokens_unset" =>
            /\ pc = "cooldown"
            /\ timer = COOLDOWN_SLEEP
            /\ ~sockOpen
            /\ AUTH_TOKEN = 0 \/ FEED_TOKEN = 0
            /\ ~AcquisitionFailed(lastResp))
    /\ [](InLoop => (AUTH_TOKEN # 0 /\ FEED_TOKEN # 0))
    /\ (log.event = "tokens_unset") ~> (pc = "gen")

C20_Witness ==
    /\ log.event = "tokens_unset"
    /\ AUTH_TOKEN # 0
    /\ FEED_TOKEN = 0
    /\ pc = "cooldown"

====
